---- MODULE Spec2Model ----
(***************************************************************************)
(* Model of orca/server_metrics.go: the ServerMetrics value (four scalars  *)
(* and three maps), its merge and toLoadReportProto methods, and the       *)
(* mutex-guarded serverMetricsRecorder.                                    *)
(*                                                                         *)
(* Go maps are reference values.  A map instance is an index into `heap`;  *)
(* a ServerMetrics struct holds its scalars by value and its three maps by *)
(* reference, exactly as the Go struct does.  float64 values are modelled  *)
(* by small integers; -1 is the code's "unset" sentinel.                   *)
(*                                                                         *)
(* Four specifications share the definitions that model the code:          *)
(*   Spec      one caller: every call runs from Lock to Unlock as a step;  *)
(*             the caller keeps, edits, merges and serializes the values   *)
(*             it was given.                                               *)
(*   ConcSpec  several threads: a call is its invocation, the Lock, each   *)
(*             access to the recorder's state, and the deferred Unlock.    *)
(*   ConcFairSpec  the threads under a fair scheduler and a fair mutex.    *)
(*   ValueSpec merge on any two ServerMetrics values a caller built.       *)
(***************************************************************************)
EXTENDS Integers, Sequences, FiniteSets, TLC

\* ------------------------------------------------------------------ bounds
MaxOps == 3
MaxFill == 2
NThreads == 2
MaxCalls == 2

\* ------------------------------------------------------- program constants
Unset == -1
Nil == 0

Names == {"a", "b"}
ScalarVals == {Unset, 0, 1}
MapVals == {0, 1}
EditVals == {2}
ConcVals == {1}
Threads == 1..NThreads

ScalarFields == {"CPUUtilization", "MemUtilization", "QPS", "EPS"}
MapFields == {"Utilization", "RequestCost", "NamedMetrics"}

\* The fields of the struct literal of ServerMetrics(), in evaluation order.
FieldOrder ==
    <<"CPUUtilization", "MemUtilization", "QPS", "EPS",
      "Utilization", "RequestCost", "NamedMetrics">>

VARIABLES
    heap,       \* the live map instances: heap[id] is the content of map id
    state,      \* serverMetricsRecorder.state, the recorder's *ServerMetrics
    mu,         \* serverMetricsRecorder.mu: 0 when free, else the holding thread
    snaps,      \* the *ServerMetrics values returned by ServerMetrics(), kept by the caller
    reports,    \* the *OrcaLoadReport values returned by toLoadReportProto
    nops,       \* number of calls the single caller has made
    lastCall,   \* history: the most recent call and its arguments
    prev,       \* history: the recorder's content before its most recent setter/deleter call
    lastMerge,  \* history: the operands of the most recent merge, and all contents before it
    lastScalar, \* history: per scalar, the most recent recorder call on it
    lastNamed,  \* history: per (map, name), the most recent recorder call on it
    pc,         \* per thread: where it is in its current call
    call,       \* per thread: the call it is in
    ret,        \* per thread: the struct literal ServerMetrics() has built so far
    tmp,        \* per thread: the map content a map assignment or delete has loaded
    ncalls,     \* number of setter/deleter calls invoked by the threads
    lin,        \* history: the content whole setter/deleter calls produce, applied one at a time
    stress,     \* history: the SetNamedMetric calls made, while nothing else was called
    window,     \* history: per thread in ServerMetrics(), the values of lin since its Lock
    quiet,      \* history: per thread in ServerMetrics(), no setter/deleter was in flight during it
    program     \* history: the scalars one thread has set, in the order of its calls

seqVars == <<snaps, reports, nops, lastCall, prev, lastMerge, lastScalar, lastNamed>>
concVars == <<pc, call, ret, tmp, ncalls, lin, stress, window, quiet, program>>
vars == <<heap, state, mu, seqVars, concVars>>

\* ------------------------------------------------------------ map contents
EmptyMap == [k \in {} |-> 0]

\* a[k] = v
Put(m, k, v) == [x \in (DOMAIN m) \cup {k} |-> IF x = k THEN v ELSE m[x]]

\* delete(a, k)
Remove(m, k) == [x \in (DOMAIN m) \ {k} |-> m[x]]

\* The set holding m[k] when k is a key of m, the empty set otherwise.
Lookup(m, k) == IF k \in DOMAIN m THEN {m[k]} ELSE {}

\* make(map[string]float64): a fresh, empty instance at the first free index.
Make(h) ==
    LET id == CHOOSE i \in 1..(Cardinality(DOMAIN h) + 1) :
                  /\ i \notin DOMAIN h
                  /\ \A j \in 1..(i - 1) : j \in DOMAIN h
    IN [heap |-> Put(h, id, EmptyMap), id |-> id]

\* The garbage collector reclaims the instances nothing refers to any more.
Free(h, ids) == [i \in (DOMAIN h) \ ids |-> h[i]]

\* --------------------------------------------------------- ServerMetrics
\* The content of a ServerMetrics value with its maps dereferenced.
Abs(h, sm) ==
    [CPUUtilization |-> sm.CPUUtilization,
     MemUtilization |-> sm.MemUtilization,
     QPS            |-> sm.QPS,
     EPS            |-> sm.EPS,
     Utilization    |-> h[sm.Utilization],
     RequestCost    |-> h[sm.RequestCost],
     NamedMetrics   |-> h[sm.NamedMetrics]]

\* A toLoadReportProto without the four -1 tests.
toLoadReportProtoUnguarded(sm) ==
    [Utilization    |-> sm.Utilization,
     RequestCost    |-> sm.RequestCost,
     NamedMetrics   |-> sm.NamedMetrics,
     CpuUtilization |-> sm.CPUUtilization,
     MemUtilization |-> sm.MemUtilization,
     RpsFractional  |-> sm.QPS,
     Eps            |-> sm.EPS]

\* A toLoadReportProto that leaves RequestCost out of the struct literal.
toLoadReportProtoNoCost(sm) ==
    [Utilization    |-> sm.Utilization,
     RequestCost    |-> Nil,
     NamedMetrics   |-> sm.NamedMetrics,
     CpuUtilization |-> IF sm.CPUUtilization # Unset THEN sm.CPUUtilization ELSE 0,
     MemUtilization |-> IF sm.MemUtilization # Unset THEN sm.MemUtilization ELSE 0,
     RpsFractional  |-> IF sm.QPS # Unset THEN sm.QPS ELSE 0,
     Eps            |-> IF sm.EPS # Unset THEN sm.EPS ELSE 0]

\* A toLoadReportProto that hands NamedMetrics the RequestCost map.
toLoadReportProtoMixedMaps(sm) ==
    [Utilization    |-> sm.Utilization,
     RequestCost    |-> sm.RequestCost,
     NamedMetrics   |-> sm.RequestCost,
     CpuUtilization |-> IF sm.CPUUtilization # Unset THEN sm.CPUUtilization ELSE 0,
     MemUtilization |-> IF sm.MemUtilization # Unset THEN sm.MemUtilization ELSE 0,
     RpsFractional  |-> IF sm.QPS # Unset THEN sm.QPS ELSE 0,
     Eps            |-> IF sm.EPS # Unset THEN sm.EPS ELSE 0]

\* toLoadReportProto: the struct literal takes the three map references of sm;
\* the four float64 fields keep Go's zero value unless sm's scalar is not -1.
toLoadReportProto(sm) ==
    [Utilization    |-> sm.Utilization,
     RequestCost    |-> sm.RequestCost,
     NamedMetrics   |-> sm.NamedMetrics,
     CpuUtilization |-> IF sm.CPUUtilization # Unset THEN sm.CPUUtilization ELSE 0,
     MemUtilization |-> IF sm.MemUtilization # Unset THEN sm.MemUtilization ELSE 0,
     RpsFractional  |-> IF sm.QPS # Unset THEN sm.QPS ELSE 0,
     Eps            |-> IF sm.EPS # Unset THEN sm.EPS ELSE 0]

\* for k, v := range b { a[k] = v } on the instances a and b of heap h.
RECURSIVE mergeMapLoop(_, _, _, _)
mergeMapLoop(h, a, b, keys) ==
    IF keys = {} THEN h
    ELSE LET k == CHOOSE x \in keys : TRUE
         IN mergeMapLoop([h EXCEPT ![a] = Put(@, k, h[b][k])], a, b, keys \ {k})

\* A mergeMap that adds b's value to a's: a[k] += v.
RECURSIVE mergeMapAddLoop(_, _, _, _)
mergeMapAddLoop(h, a, b, keys) ==
    IF keys = {} THEN h
    ELSE LET k == CHOOSE x \in keys : TRUE
             old == IF k \in DOMAIN h[a] THEN h[a][k] ELSE 0
         IN mergeMapAddLoop([h EXCEPT ![a] = Put(@, k, old + h[b][k])], a, b, keys \ {k})

mergeMapAdding(h, a, b) == mergeMapAddLoop(h, a, b, DOMAIN h[b])

\* A mergeMap that keeps the entries a already has.
mergeMapKeepExisting(h, a, b) == mergeMapLoop(h, a, b, (DOMAIN h[b]) \ (DOMAIN h[a]))

mergeMap(h, a, b) == mergeMapLoop(h, a, b, DOMAIN h[b])

\* A merge that copies the four scalars of o without the -1 tests.
mergeScalarsUnconditional(sm, o) ==
    [sm EXCEPT
        !.CPUUtilization = o.CPUUtilization,
        !.MemUtilization = o.MemUtilization,
        !.QPS            = o.QPS,
        !.EPS            = o.EPS]

\* sm.merge(o): sm after the four guarded assignments.
mergeScalars(sm, o) ==
    [sm EXCEPT
        !.CPUUtilization = IF o.CPUUtilization # Unset THEN o.CPUUtilization ELSE @,
        !.MemUtilization = IF o.MemUtilization # Unset THEN o.MemUtilization ELSE @,
        !.QPS            = IF o.QPS # Unset THEN o.QPS ELSE @,
        !.EPS            = IF o.EPS # Unset THEN o.EPS ELSE @]

\* sm.merge(o): the heap after the three mergeMap calls, in the code's order.
mergeMaps(h, sm, o) ==
    mergeMap(mergeMap(mergeMap(h, sm.Utilization, o.Utilization),
                      sm.RequestCost, o.RequestCost),
             sm.NamedMetrics, o.NamedMetrics)

\* copyMap: a fresh instance filled key by key from m.
RECURSIVE copyMapLoop(_, _, _)
copyMapLoop(r, m, keys) ==
    IF keys = {} THEN r
    ELSE LET k == CHOOSE x \in keys : TRUE
         IN copyMapLoop(Put(r, k, m[k]), m, keys \ {k})

\* A copyMap that returns its argument: no copy is made.
copyMapShared(h, m) == [heap |-> h, id |-> m]

copyMap(h, m) ==
    LET made == Make(h)
    IN [heap |-> [made.heap EXCEPT ![made.id] = copyMapLoop(@, h[m], DOMAIN h[m])],
        id   |-> made.id]

\* ----------------------------------------------------------- the recorder
\* A constructor that leaves the scalars at Go's zero value.
newServerMetricsRecorderZero ==
    LET m1 == Make(EmptyMap)
        m2 == Make(m1.heap)
        m3 == Make(m2.heap)
    IN [state |-> [CPUUtilization |-> 0,
                   MemUtilization |-> 0,
                   QPS            |-> 0,
                   EPS            |-> 0,
                   Utilization    |-> m1.id,
                   RequestCost    |-> m2.id,
                   NamedMetrics   |-> m3.id],
        heap  |-> m3.heap]

newServerMetricsRecorder ==
    LET m1 == Make(EmptyMap)
        m2 == Make(m1.heap)
        m3 == Make(m2.heap)
    IN [state |-> [CPUUtilization |-> Unset,
                   MemUtilization |-> Unset,
                   QPS            |-> Unset,
                   EPS            |-> Unset,
                   Utilization    |-> m1.id,
                   RequestCost    |-> m2.id,
                   NamedMetrics   |-> m3.id],
        heap  |-> m3.heap]

\* One field of the struct literal of ServerMetrics(): a scalar is read from the
\* recorder's state, a map is copied.  r is the literal built so far.
ReadField(h, st, r, f) ==
    IF f \in ScalarFields
    THEN [heap |-> h, ret |-> Put(r, f, st[f])]
    ELSE LET c == copyMap(h, st[f])
         IN [heap |-> c.heap, ret |-> Put(r, f, c.id)]

RECURSIVE ReadFields(_, _, _, _)
ReadFields(h, st, r, k) ==
    IF k > Len(FieldOrder) THEN [heap |-> h, ret |-> r]
    ELSE LET one == ReadField(h, st, r, FieldOrder[k])
         IN ReadFields(one.heap, st, one.ret, k + 1)

\* A ServerMetrics() that hands out the named metrics and starts them afresh.
ServerMetricsCopyDraining(h, st) ==
    LET c == ReadFields(h, st, EmptyMap, 1)
    IN [heap |-> [c.heap EXCEPT ![st.NamedMetrics] = EmptyMap], ret |-> c.ret]

\* The body of ServerMetrics(): the whole struct literal.
ServerMetricsCopy(h, st) == ReadFields(h, st, EmptyMap, 1)

\* The locked bodies of the setters and deleters.
SetCPUUtilization(val) ==
    state' = [state EXCEPT !.CPUUtilization = val] /\ heap' = heap

DeleteCPUUtilization == SetCPUUtilization(Unset)

SetMemoryUtilization(val) ==
    state' = [state EXCEPT !.MemUtilization = val] /\ heap' = heap

DeleteMemoryUtilization == SetMemoryUtilization(Unset)

\* A SetQPS that assigns to EPS.
SetQPSWrongField(val) ==
    state' = [state EXCEPT !.EPS = val] /\ heap' = heap

SetQPS(val) ==
    state' = [state EXCEPT !.QPS = val] /\ heap' = heap

DeleteQPS == SetQPS(Unset)

SetEPS(val) ==
    state' = [state EXCEPT !.EPS = val] /\ heap' = heap

DeleteEPS == SetEPS(Unset)

\* A SetNamedUtilization that stores a new map holding the one entry.
SetNamedUtilizationReplacing(name, val) ==
    heap' = [heap EXCEPT ![state.Utilization] = Put(EmptyMap, name, val)] /\ state' = state

SetNamedUtilization(name, val) ==
    heap' = [heap EXCEPT ![state.Utilization] = Put(@, name, val)] /\ state' = state

DeleteNamedUtilization(name) ==
    heap' = [heap EXCEPT ![state.Utilization] = Remove(@, name)] /\ state' = state

SetRequestCost(name, val) ==
    heap' = [heap EXCEPT ![state.RequestCost] = Put(@, name, val)] /\ state' = state

\* A DeleteRequestCost that deletes from NamedMetrics.
DeleteRequestCostWrongMap(name) ==
    heap' = [heap EXCEPT ![state.NamedMetrics] = Remove(@, name)] /\ state' = state

DeleteRequestCost(name) ==
    heap' = [heap EXCEPT ![state.RequestCost] = Remove(@, name)] /\ state' = state

SetNamedMetric(name, val) ==
    heap' = [heap EXCEPT ![state.NamedMetrics] = Put(@, name, val)] /\ state' = state

DeleteNamedMetric(name) ==
    heap' = [heap EXCEPT ![state.NamedMetrics] = Remove(@, name)] /\ state' = state

\* ------------------------------------------------------------- the calls
NoRet == EmptyMap
NoOp == [op |-> "none", name |-> "", val |-> 0]

ScalarSetOps == {"SetCPUUtilization", "SetMemoryUtilization", "SetQPS", "SetEPS"}
ScalarDeleteOps == {"DeleteCPUUtilization", "DeleteMemoryUtilization", "DeleteQPS", "DeleteEPS"}
NamedSetOps == {"SetNamedUtilization", "SetRequestCost", "SetNamedMetric"}
NamedDeleteOps == {"DeleteNamedUtilization", "DeleteRequestCost", "DeleteNamedMetric"}
MutatorOps == ScalarSetOps \cup ScalarDeleteOps \cup NamedSetOps \cup NamedDeleteOps

\* The calls a thread may make, with their arguments.
ThreadCalls ==
    {[op |-> o, name |-> "", val |-> v] : o \in ScalarSetOps, v \in ConcVals}
    \cup {[op |-> o, name |-> "", val |-> Unset] : o \in ScalarDeleteOps}
    \cup {[op |-> o, name |-> n, val |-> v] : o \in NamedSetOps, n \in Names, v \in ConcVals}
    \cup {[op |-> o, name |-> n, val |-> 0] : o \in NamedDeleteOps, n \in Names}
    \cup {[op |-> "ServerMetrics", name |-> "", val |-> 0]}

\* The map of the recorder's state a named setter or deleter works on.
MapOf(op) ==
    IF op \in {"SetNamedUtilization", "DeleteNamedUtilization"} THEN "Utilization"
    ELSE IF op \in {"SetRequestCost", "DeleteRequestCost"} THEN "RequestCost"
    ELSE "NamedMetrics"

\* The scalar of the recorder's state a scalar setter or deleter works on.
ScalarOf(op) ==
    IF op \in {"SetCPUUtilization", "DeleteCPUUtilization"} THEN "CPUUtilization"
    ELSE IF op \in {"SetMemoryUtilization", "DeleteMemoryUtilization"} THEN "MemUtilization"
    ELSE IF op \in {"SetQPS", "DeleteQPS"} THEN "QPS"
    ELSE "EPS"

\* ------------------------------------------------- calls, one at a time
\* A call on the recorder by a single caller: Lock, the body, the deferred
\* Unlock, as one step.  The history variables record what was called, and
\* the recorder's content before it.
NoCall == [op |-> "none", val |-> {}, old |-> {}]

Called(o, n, v) == [op |-> o, name |-> n, val |-> v]

RecorderCall(c) ==
    /\ mu = 0
    /\ nops < MaxOps
    /\ nops' = nops + 1
    /\ lastCall' = c
    /\ prev' = Abs(heap, state)
    /\ UNCHANGED <<mu, snaps, reports, lastMerge, concVars>>

NoteScalar(f, op, val) ==
    /\ lastScalar' = [lastScalar EXCEPT ![f] = [op |-> op, val |-> {val}, old |-> {state[f]}]]
    /\ UNCHANGED lastNamed

NoteNamed(m, name, op, val) ==
    /\ lastNamed' = [lastNamed EXCEPT ![<<m, name>>] =
                        [op |-> op, val |-> val, old |-> Lookup(heap[state[m]], name)]]
    /\ UNCHANGED lastScalar

CallSetCPUUtilization(val) ==
    /\ RecorderCall(Called("SetCPUUtilization", "", val))
    /\ SetCPUUtilization(val)
    /\ NoteScalar("CPUUtilization", "Set", val)

CallDeleteCPUUtilization ==
    /\ RecorderCall(Called("DeleteCPUUtilization", "", Unset))
    /\ DeleteCPUUtilization
    /\ NoteScalar("CPUUtilization", "Delete", Unset)

CallSetMemoryUtilization(val) ==
    /\ RecorderCall(Called("SetMemoryUtilization", "", val))
    /\ SetMemoryUtilization(val)
    /\ NoteScalar("MemUtilization", "Set", val)

CallDeleteMemoryUtilization ==
    /\ RecorderCall(Called("DeleteMemoryUtilization", "", Unset))
    /\ DeleteMemoryUtilization
    /\ NoteScalar("MemUtilization", "Delete", Unset)

CallSetQPS(val) ==
    /\ RecorderCall(Called("SetQPS", "", val))
    /\ SetQPS(val)
    /\ NoteScalar("QPS", "Set", val)

CallDeleteQPS ==
    /\ RecorderCall(Called("DeleteQPS", "", Unset))
    /\ DeleteQPS
    /\ NoteScalar("QPS", "Delete", Unset)

CallSetEPS(val) ==
    /\ RecorderCall(Called("SetEPS", "", val))
    /\ SetEPS(val)
    /\ NoteScalar("EPS", "Set", val)

CallDeleteEPS ==
    /\ RecorderCall(Called("DeleteEPS", "", Unset))
    /\ DeleteEPS
    /\ NoteScalar("EPS", "Delete", Unset)

CallSetNamedUtilization(name, val) ==
    /\ RecorderCall(Called("SetNamedUtilization", name, val))
    /\ SetNamedUtilization(name, val)
    /\ NoteNamed("Utilization", name, "Set", {val})

CallDeleteNamedUtilization(name) ==
    /\ RecorderCall(Called("DeleteNamedUtilization", name, 0))
    /\ DeleteNamedUtilization(name)
    /\ NoteNamed("Utilization", name, "Delete", {})

CallSetRequestCost(name, val) ==
    /\ RecorderCall(Called("SetRequestCost", name, val))
    /\ SetRequestCost(name, val)
    /\ NoteNamed("RequestCost", name, "Set", {val})

CallDeleteRequestCost(name) ==
    /\ RecorderCall(Called("DeleteRequestCost", name, 0))
    /\ DeleteRequestCost(name)
    /\ NoteNamed("RequestCost", name, "Delete", {})

CallSetNamedMetric(name, val) ==
    /\ RecorderCall(Called("SetNamedMetric", name, val))
    /\ SetNamedMetric(name, val)
    /\ NoteNamed("NamedMetrics", name, "Set", {val})

CallDeleteNamedMetric(name) ==
    /\ RecorderCall(Called("DeleteNamedMetric", name, 0))
    /\ DeleteNamedMetric(name)
    /\ NoteNamed("NamedMetrics", name, "Delete", {})

\* A *ServerMetrics in the caller's hands.  `taken` and `touched` are history:
\* its content when the caller got it, and whether the caller wrote to it since.
Held(h, sm) == [sm |-> sm, taken |-> Abs(h, sm), touched |-> FALSE]

\* ServerMetrics(): the copy is returned to the caller, who keeps it.
CallServerMetrics ==
    /\ mu = 0
    /\ nops < MaxOps
    /\ nops' = nops + 1
    /\ LET c == ServerMetricsCopy(heap, state)
       IN /\ heap' = c.heap
          /\ snaps' = Append(snaps, Held(c.heap, c.ret))
    /\ lastCall' = Called("ServerMetrics", "", 0)
    /\ UNCHANGED <<state, mu, reports, prev, lastMerge, lastScalar, lastNamed, concVars>>

\* The caller's own writes to a value it holds: the fields of ServerMetrics
\* are exported, and its maps are ordinary Go maps.
CallerEdit(c) ==
    /\ nops < MaxOps
    /\ nops' = nops + 1
    /\ lastCall' = c
    /\ UNCHANGED <<state, mu, reports, prev, lastScalar, lastNamed, concVars>>

CallerSetScalar(i, f, val) ==
    /\ CallerEdit(Called("CallerSetScalar", f, val))
    /\ snaps' = [snaps EXCEPT ![i].sm[f] = val, ![i].touched = TRUE]
    /\ heap' = heap
    /\ UNCHANGED lastMerge

CallerSetKey(i, m, name, val) ==
    /\ CallerEdit(Called("CallerSetKey", name, val))
    /\ heap' = [heap EXCEPT ![snaps[i].sm[m]] = Put(@, name, val)]
    /\ snaps' = [snaps EXCEPT ![i].touched = TRUE]
    /\ UNCHANGED lastMerge

CallerDeleteKey(i, m, name) ==
    /\ CallerEdit(Called("CallerDeleteKey", name, 0))
    /\ heap' = [heap EXCEPT ![snaps[i].sm[m]] = Remove(@, name)]
    /\ snaps' = [snaps EXCEPT ![i].touched = TRUE]
    /\ UNCHANGED lastMerge

\* snaps[i].sm.merge(snaps[j].sm).  lastMerge is history: the operands and
\* all contents before the call.
Merge(i, j) ==
    /\ snaps' = [snaps EXCEPT ![i].sm = mergeScalars(snaps[i].sm, snaps[j].sm),
                              ![i].touched = TRUE]
    /\ heap' = mergeMaps(heap, snaps[i].sm, snaps[j].sm)
    /\ lastMerge' = [self   |-> i,
                     other  |-> j,
                     before |-> [k \in DOMAIN snaps |-> Abs(heap, snaps[k].sm)]]

CallMerge(i, j) ==
    /\ CallerEdit(Called("merge", "", 0))
    /\ Merge(i, j)

\* snaps[i].sm.toLoadReportProto().  `from` and `built` are history: the value
\* serialized and its content when it was.
CallToLoadReportProto(i) ==
    /\ nops < MaxOps
    /\ nops' = nops + 1
    /\ reports' = Append(reports, [proto |-> toLoadReportProto(snaps[i].sm),
                                   from  |-> i,
                                   built |-> Abs(heap, snaps[i].sm)])
    /\ lastCall' = Called("toLoadReportProto", "", 0)
    /\ UNCHANGED <<heap, state, mu, snaps, prev, lastMerge, lastScalar, lastNamed, concVars>>

\* ------------------------------------------------------ calls by threads
InServerMetrics(t) == pc[t] # "idle" /\ call[t].op = "ServerMetrics"

\* What one whole call makes of the content x, run alone.
ApplyCall(x, c) ==
    IF c.op \in {"SetCPUUtilization", "DeleteCPUUtilization"}
        THEN [x EXCEPT !.CPUUtilization = c.val]
    ELSE IF c.op \in {"SetMemoryUtilization", "DeleteMemoryUtilization"}
        THEN [x EXCEPT !.MemUtilization = c.val]
    ELSE IF c.op \in {"SetQPS", "DeleteQPS"} THEN [x EXCEPT !.QPS = c.val]
    ELSE IF c.op \in {"SetEPS", "DeleteEPS"} THEN [x EXCEPT !.EPS = c.val]
    ELSE IF c.op \in NamedSetOps THEN [x EXCEPT ![MapOf(c.op)] = Put(@, c.name, c.val)]
    ELSE IF c.op \in NamedDeleteOps THEN [x EXCEPT ![MapOf(c.op)] = Remove(@, c.name)]
    ELSE x

\* The stress run of the tests: threads call SetNamedMetric, each once, each
\* with a name of its own.  Any other setter or deleter call ends the run.
NoStress == [on |-> FALSE, calls |-> {}]

Stressed(s, t, c) ==
    IF /\ s.on
       /\ c.op = "SetNamedMetric"
       /\ \A d \in s.calls : d.t # t /\ d.name # c.name
    THEN [on |-> TRUE, calls |-> s.calls \cup {[t |-> t, name |-> c.name, val |-> c.val]}]
    ELSE NoStress

\* One thread setting scalars one after the other, as a caller reporting
\* several metrics does: the history holds, while no other setter or deleter
\* call was made, the thread and the scalars it has set, in the order it called
\* the setters.
NoProgram == [on |-> FALSE, t |-> 0, fields |-> <<>>]

Programmed(p, t, c) ==
    IF /\ p.on
       /\ c.op \in ScalarSetOps /\ c.val # Unset
       /\ p.t \in {0, t}
       /\ \A i \in DOMAIN p.fields : p.fields[i] # ScalarOf(c.op)
    THEN [on |-> TRUE, t |-> t, fields |-> Append(p.fields, ScalarOf(c.op))]
    ELSE NoProgram

\* Thread t calls c.  A Delete of a scalar calls the setter with -1, so it
\* arrives at the setter's Lock like any other call.
Invoke(t, c) ==
    /\ pc[t] = "idle"
    /\ pc' = [pc EXCEPT ![t] = "lock"]
    /\ call' = [call EXCEPT ![t] = c]
    /\ IF c.op = "ServerMetrics"
       THEN /\ quiet' = [quiet EXCEPT ![t] =
                            \A u \in Threads \ {t} : pc[u] = "idle" \/ InServerMetrics(u)]
            /\ UNCHANGED <<ncalls, stress, program>>
       ELSE /\ ncalls < MaxCalls
            /\ ncalls' = ncalls + 1
            /\ stress' = Stressed(stress, t, c)
            /\ program' = Programmed(program, t, c)
            /\ quiet' = [u \in Threads |-> FALSE]
    /\ UNCHANGED <<heap, state, mu, ret, tmp, lin, window, seqVars>>

\* A ServerMetrics() without the Lock: the reader neither waits for the mutex
\* nor takes it.
LockIgnoredByReader(t) ==
    /\ pc[t] = "lock"
    /\ call[t].op = "ServerMetrics" \/ mu = 0
    /\ mu' = IF call[t].op = "ServerMetrics" THEN mu ELSE t
    /\ pc' = [pc EXCEPT ![t] =
                 IF call[t].op = "ServerMetrics" THEN "read"
                 ELSE IF call[t].op \in NamedSetOps \cup NamedDeleteOps THEN "load"
                 ELSE "write"]
    /\ window' = [window EXCEPT ![t] = IF call[t].op = "ServerMetrics" THEN {lin} ELSE {}]
    /\ UNCHANGED <<heap, state, call, ret, tmp, ncalls, lin, stress, quiet, program, seqVars>>

\* A Lock that does not wait.
LockNoWait(t) ==
    /\ pc[t] = "lock"
    /\ mu' = t
    /\ pc' = [pc EXCEPT ![t] =
                 IF call[t].op = "ServerMetrics" THEN "read"
                 ELSE IF call[t].op \in NamedSetOps \cup NamedDeleteOps THEN "load"
                 ELSE "write"]
    /\ window' = [window EXCEPT ![t] = IF call[t].op = "ServerMetrics" THEN {lin} ELSE {}]
    /\ UNCHANGED <<heap, state, call, ret, tmp, ncalls, lin, stress, quiet, program, seqVars>>

\* A Lock that ServerMetrics() gives back at once instead of deferring the Unlock.
LockNotHeldByReader(t) ==
    /\ pc[t] = "lock"
    /\ mu = 0
    /\ mu' = IF call[t].op = "ServerMetrics" THEN 0 ELSE t
    /\ pc' = [pc EXCEPT ![t] =
                 IF call[t].op = "ServerMetrics" THEN "read"
                 ELSE IF call[t].op \in NamedSetOps \cup NamedDeleteOps THEN "load"
                 ELSE "write"]
    /\ window' = [window EXCEPT ![t] = IF call[t].op = "ServerMetrics" THEN {lin} ELSE {}]
    /\ UNCHANGED <<heap, state, call, ret, tmp, ncalls, lin, stress, quiet, program, seqVars>>

\* A Lock taken by the scalar deleter itself, before it calls the setter: the
\* setter's Lock then finds the mutex held by its own thread.
LockBeforeDelegating(t) ==
    /\ pc[t] = "lock"
    /\ mu = 0
    /\ mu' = t
    /\ pc' = [pc EXCEPT ![t] =
                 IF call[t].op = "ServerMetrics" THEN "read"
                 ELSE IF call[t].op \in NamedSetOps \cup NamedDeleteOps THEN "load"
                 ELSE IF call[t].op \in ScalarDeleteOps THEN "lock"
                 ELSE "write"]
    /\ window' = [window EXCEPT ![t] = IF call[t].op = "ServerMetrics" THEN {lin} ELSE {}]
    /\ UNCHANGED <<heap, state, call, ret, tmp, ncalls, lin, stress, quiet, program, seqVars>>

\* s.mu.Lock(): blocks until the mutex is free.
Lock(t) ==
    /\ pc[t] = "lock"
    /\ mu = 0
    /\ mu' = t
    /\ pc' = [pc EXCEPT ![t] =
                 IF call[t].op = "ServerMetrics" THEN "read"
                 ELSE IF call[t].op \in NamedSetOps \cup NamedDeleteOps THEN "load"
                 ELSE "write"]
    /\ window' = [window EXCEPT ![t] = IF call[t].op = "ServerMetrics" THEN {lin} ELSE {}]
    /\ UNCHANGED <<heap, state, call, ret, tmp, ncalls, lin, stress, quiet, program, seqVars>>

\* The write of thread t takes effect: its whole call is applied to lin, and
\* every thread past the Lock of ServerMetrics() has the result in its window.
Observe(t) ==
    /\ lin' = ApplyCall(lin, call[t])
    /\ window' = [u \in Threads |->
                     IF InServerMetrics(u) /\ pc[u] # "lock"
                     THEN window[u] \cup {ApplyCall(lin, call[t])}
                     ELSE window[u]]

\* The assignment to a scalar of s.state.
WriteScalar(t) ==
    /\ pc[t] = "write"
    /\ \/ call[t].op = "SetCPUUtilization" /\ SetCPUUtilization(call[t].val)
       \/ call[t].op = "DeleteCPUUtilization" /\ DeleteCPUUtilization
       \/ call[t].op = "SetMemoryUtilization" /\ SetMemoryUtilization(call[t].val)
       \/ call[t].op = "DeleteMemoryUtilization" /\ DeleteMemoryUtilization
       \/ call[t].op = "SetQPS" /\ SetQPS(call[t].val)
       \/ call[t].op = "DeleteQPS" /\ DeleteQPS
       \/ call[t].op = "SetEPS" /\ SetEPS(call[t].val)
       \/ call[t].op = "DeleteEPS" /\ DeleteEPS
    /\ Observe(t)
    /\ pc' = [pc EXCEPT ![t] = "unlock"]
    /\ UNCHANGED <<mu, call, ret, tmp, ncalls, stress, quiet, program, seqVars>>

\* A map assignment or delete is not one memory access: the runtime reads the
\* map, then writes it.  The two are a step each.
LoadMap(t) ==
    /\ pc[t] = "load"
    /\ tmp' = [tmp EXCEPT ![t] = heap[state[MapOf(call[t].op)]]]
    /\ pc' = [pc EXCEPT ![t] = "store"]
    /\ UNCHANGED <<heap, state, mu, call, ret, ncalls, lin, stress, window, quiet, program, seqVars>>

StoreMap(t) ==
    /\ pc[t] = "store"
    /\ heap' = [heap EXCEPT ![state[MapOf(call[t].op)]] =
                   IF call[t].op \in NamedSetOps
                   THEN Put(tmp[t], call[t].name, call[t].val)
                   ELSE Remove(tmp[t], call[t].name)]
    /\ state' = state
    /\ Observe(t)
    /\ tmp' = [tmp EXCEPT ![t] = EmptyMap]
    /\ pc' = [pc EXCEPT ![t] = "unlock"]
    /\ UNCHANGED <<mu, call, ret, ncalls, stress, quiet, program, seqVars>>

\* ServerMetrics() evaluates the next field of its struct literal.
ReadNext(t) ==
    /\ pc[t] = "read"
    /\ LET k == Cardinality(DOMAIN ret[t]) + 1
           one == ReadField(heap, state, ret[t], FieldOrder[k])
       IN /\ heap' = one.heap
          /\ ret' = [ret EXCEPT ![t] = one.ret]
          /\ pc' = [pc EXCEPT ![t] = IF k = Len(FieldOrder) THEN "unlock" ELSE "read"]
    /\ UNCHANGED <<state, mu, call, tmp, ncalls, lin, stress, window, quiet, program, seqVars>>

\* A return without the Unlock.
UnlockForgotten(t) ==
    /\ pc[t] = "unlock"
    /\ mu' = mu
    /\ pc' = [pc EXCEPT ![t] = "idle"]
    /\ call' = [call EXCEPT ![t] = NoOp]
    /\ heap' = IF call[t].op = "ServerMetrics"
               THEN Free(heap, {ret[t][f] : f \in MapFields})
               ELSE heap
    /\ ret' = [ret EXCEPT ![t] = NoRet]
    /\ window' = [window EXCEPT ![t] = {}]
    /\ quiet' = [quiet EXCEPT ![t] = FALSE]
    /\ UNCHANGED <<state, tmp, ncalls, lin, stress, program, seqVars>>

\* The deferred s.mu.Unlock(), and the return.  The value ServerMetrics()
\* returns is the literal as built; the thread uses it and lets go of it.
Unlock(t) ==
    /\ pc[t] = "unlock"
    /\ mu' = 0
    /\ pc' = [pc EXCEPT ![t] = "idle"]
    /\ call' = [call EXCEPT ![t] = NoOp]
    /\ heap' = IF call[t].op = "ServerMetrics"
               THEN Free(heap, {ret[t][f] : f \in MapFields})
               ELSE heap
    /\ ret' = [ret EXCEPT ![t] = NoRet]
    /\ window' = [window EXCEPT ![t] = {}]
    /\ quiet' = [quiet EXCEPT ![t] = FALSE]
    /\ UNCHANGED <<state, tmp, ncalls, lin, stress, program, seqVars>>

\* The state after NewServerMetricsRecorder(): nothing called yet.

Init ==
    /\ heap = newServerMetricsRecorder.heap
    /\ state = newServerMetricsRecorder.state
    /\ mu = 0
    /\ pc = [t \in Threads |-> "idle"]
    /\ call = [t \in Threads |-> NoOp]
    /\ ret = [t \in Threads |-> NoRet]
    /\ tmp = [t \in Threads |-> EmptyMap]
    /\ ncalls = 0
    /\ lin = Abs(newServerMetricsRecorder.heap, newServerMetricsRecorder.state)
    /\ stress = [on |-> TRUE, calls |-> {}]
    /\ window = [t \in Threads |-> {}]
    /\ quiet = [t \in Threads |-> FALSE]
    /\ program = [on |-> TRUE, t |-> 0, fields |-> <<>>]
    /\ snaps = <<>>
    /\ reports = <<>>
    /\ nops = 0
    /\ lastCall = Called("NewServerMetricsRecorder", "", 0)
    /\ prev = Abs(newServerMetricsRecorder.heap, newServerMetricsRecorder.state)
    /\ lastMerge = [self |-> 0, other |-> 0, before |-> <<>>]
    /\ lastScalar = [f \in ScalarFields |-> NoCall]
    /\ lastNamed = [k \in MapFields \X Names |-> NoCall]

Next ==
    \/ \E val \in ScalarVals : CallSetCPUUtilization(val)
    \/ CallDeleteCPUUtilization
    \/ \E val \in ScalarVals : CallSetMemoryUtilization(val)
    \/ CallDeleteMemoryUtilization
    \/ \E val \in ScalarVals : CallSetQPS(val)
    \/ CallDeleteQPS
    \/ \E val \in ScalarVals : CallSetEPS(val)
    \/ CallDeleteEPS
    \/ \E name \in Names, val \in MapVals : CallSetNamedUtilization(name, val)
    \/ \E name \in Names : CallDeleteNamedUtilization(name)
    \/ \E name \in Names, val \in MapVals : CallSetRequestCost(name, val)
    \/ \E name \in Names : CallDeleteRequestCost(name)
    \/ \E name \in Names, val \in MapVals : CallSetNamedMetric(name, val)
    \/ \E name \in Names : CallDeleteNamedMetric(name)
    \/ CallServerMetrics
    \/ \E i \in DOMAIN snaps, f \in ScalarFields, val \in EditVals : CallerSetScalar(i, f, val)
    \/ \E i \in DOMAIN snaps, m \in MapFields, name \in Names, val \in EditVals :
          CallerSetKey(i, m, name, val)
    \/ \E i \in DOMAIN snaps, m \in MapFields, name \in Names : CallerDeleteKey(i, m, name)
    \/ \E i \in DOMAIN snaps, j \in DOMAIN snaps : CallMerge(i, j)
    \/ \E i \in DOMAIN snaps : CallToLoadReportProto(i)

Spec == Init /\ [][Next]_vars

ConcNext ==
    \E t \in Threads :
        \/ \E c \in ThreadCalls : Invoke(t, c)
        \/ Lock(t)
        \/ WriteScalar(t)
        \/ LoadMap(t)
        \/ StoreMap(t)
        \/ ReadNext(t)
        \/ Unlock(t)

ConcSpec == Init /\ [][ConcNext]_vars

\* What thread t does once it holds the mutex: straight-line code to the return.
Run(t) == WriteScalar(t) \/ LoadMap(t) \/ StoreMap(t) \/ ReadNext(t) \/ Unlock(t)

\* Whether a call returns depends on its statements, not on its arguments or
\* on the field it works on.  The calls of the fair run are one per shape of
\* method body - a scalar setter, a named setter, a named deleter,
\* ServerMetrics() - and each of the four scalar deleters, which reach the
\* mutex through their setter.
LiveCalls ==
    {c \in ThreadCalls :
        /\ c.name \in {"", "a"}
        /\ c.op \in ScalarDeleteOps \cup {"SetCPUUtilization", "SetNamedUtilization",
                                          "DeleteNamedUtilization", "ServerMetrics"}}

FairNext ==
    \E t \in Threads :
        \/ \E c \in LiveCalls : Invoke(t, c)
        \/ Lock(t)
        \/ Run(t)

\* The threads under a fair scheduler and a fair mutex: a thread that can run
\* does run, and a thread waiting in Lock gets the mutex if it is free again
\* and again (sync.Mutex hands over to a starving waiter).  A thread need not
\* call anything.
ConcFairSpec ==
    /\ Init
    /\ [][FairNext]_vars
    /\ \A t \in Threads : WF_vars(Run(t)) /\ SF_vars(Lock(t))

\* ------------------------------------------- merge on values of the caller
\* The two operands of a merge are values a caller built: each field of each
\* is left unset (a scalar at -1, a map without the name) or filled.  A slot
\* is one such field of one of the two values.
Slots ==
    {[who |-> w, field |-> f, name |-> ""] : w \in 1..2, f \in ScalarFields}
    \cup {[who |-> w, field |-> m, name |-> n] : w \in 1..2, m \in MapFields, n \in Names}

\* The content of value w when the slots S are filled as asg says.
Filled(w, S, asg) ==
    LET scalar(f) == LET sl == [who |-> w, field |-> f, name |-> ""]
                     IN IF sl \in S THEN asg[sl] ELSE Unset
        map(m) == [n \in {x \in Names : [who |-> w, field |-> m, name |-> x] \in S} |->
                      asg[[who |-> w, field |-> m, name |-> n]]]
    IN [CPUUtilization |-> scalar("CPUUtilization"),
        MemUtilization |-> scalar("MemUtilization"),
        QPS            |-> scalar("QPS"),
        EPS            |-> scalar("EPS"),
        Utilization    |-> map("Utilization"),
        RequestCost    |-> map("RequestCost"),
        NamedMetrics   |-> map("NamedMetrics")]

\* &ServerMetrics{...} with three maps of its own, holding content x.
NewValue(h, x) ==
    LET m1 == Make(h)
        m2 == Make(m1.heap)
        m3 == Make(m2.heap)
    IN [heap |-> [m3.heap EXCEPT ![m1.id] = x.Utilization,
                                 ![m2.id] = x.RequestCost,
                                 ![m3.id] = x.NamedMetrics],
        sm   |-> [CPUUtilization |-> x.CPUUtilization,
                  MemUtilization |-> x.MemUtilization,
                  QPS            |-> x.QPS,
                  EPS            |-> x.EPS,
                  Utilization    |-> m1.id,
                  RequestCost    |-> m2.id,
                  NamedMetrics   |-> m3.id]]

ValueInit ==
    /\ state = newServerMetricsRecorder.state
    /\ \E S \in {X \in SUBSET Slots : Cardinality(X) <= MaxFill} :
         \E asg \in [S -> MapVals] :
            LET v1 == NewValue(newServerMetricsRecorder.heap, Filled(1, S, asg))
                v2 == NewValue(v1.heap, Filled(2, S, asg))
            IN /\ heap = v2.heap
               /\ snaps = <<Held(v2.heap, v1.sm), Held(v2.heap, v2.sm)>>
    /\ mu = 0
    /\ reports = <<>>
    /\ nops = 0
    /\ lastCall = Called("NewServerMetricsRecorder", "", 0)
    /\ prev = Abs(newServerMetricsRecorder.heap, newServerMetricsRecorder.state)
    /\ lastMerge = [self |-> 0, other |-> 0, before |-> <<>>]
    /\ lastScalar = [f \in ScalarFields |-> NoCall]
    /\ lastNamed = [k \in MapFields \X Names |-> NoCall]
    /\ pc = [t \in Threads |-> "idle"]
    /\ call = [t \in Threads |-> NoOp]
    /\ ret = [t \in Threads |-> NoRet]
    /\ tmp = [t \in Threads |-> EmptyMap]
    /\ ncalls = 0
    /\ lin = Abs(newServerMetricsRecorder.heap, newServerMetricsRecorder.state)
    /\ stress = [on |-> TRUE, calls |-> {}]
    /\ window = [t \in Threads |-> {}]
    /\ quiet = [t \in Threads |-> FALSE]
    /\ program = [on |-> TRUE, t |-> 0, fields |-> <<>>]

\* The caller merges one of its values into one of them, as often as it likes.
MergeValues(i, j) ==
    /\ Merge(i, j)
    /\ lastCall' = Called("merge", "", 0)
    /\ UNCHANGED <<state, mu, reports, nops, prev, lastScalar, lastNamed, concVars>>

ValueNext == \E i \in DOMAIN snaps, j \in DOMAIN snaps : MergeValues(i, j)

ValueSpec == ValueInit /\ [][ValueNext]_vars

\* ================================================================ claims
\* What the claims speak of.
Snapshot == snaps[Len(snaps)].sm

JustSnapshotted == lastCall.op = "ServerMetrics"

\* The field of OrcaLoadReport that carries a scalar of ServerMetrics.
ProtoField(f) ==
    IF f = "CPUUtilization" THEN "CpuUtilization"
    ELSE IF f = "MemUtilization" THEN "MemUtilization"
    ELSE IF f = "QPS" THEN "RpsFractional"
    ELSE "Eps"

\* A float64 field of the report is on the wire unless it holds the zero value.
Present(report, f) == report[ProtoField(f)] # 0

\* The map instances of the recorder and of the values the caller holds.
OwnedMaps ==
    {<<0, m, state[m]>> : m \in MapFields}
    \cup {<<i, m, snaps[i].sm[m]>> : i \in DOMAIN snaps, m \in MapFields}

\* The recorder's content is what the setter and deleter calls made it.
AsRecorded ==
    /\ \A f \in ScalarFields :
          {state[f]} = IF lastScalar[f].op = "none" THEN {Unset} ELSE lastScalar[f].val
    /\ \A m \in MapFields, n \in Names :
          Lookup(heap[state[m]], n) = lastNamed[<<m, n>>].val

\* C3: a value returned by ServerMetrics() shares no map with the recorder or
\* with another returned value; a returned value the caller has not written to
\* keeps the content it was returned with, whatever is called; and the
\* recorder holds what its setters and deleters stored, whatever the caller
\* writes to the values it holds.
C3_SnapshotIndependence ==
    /\ \A x \in OwnedMaps, y \in OwnedMaps : x[3] = y[3] => x = y
    /\ \A i \in DOMAIN snaps : ~snaps[i].touched => Abs(heap, snaps[i].sm) = snaps[i].taken
    /\ AsRecorded

\* Two snapshots, one written to by the caller and one not; the recorder still
\* equals the untouched one.
C3_Witness ==
    \E i \in DOMAIN snaps, j \in DOMAIN snaps :
        /\ snaps[i].touched
        /\ Abs(heap, snaps[i].sm) # snaps[i].taken
        /\ ~snaps[j].touched
        /\ Abs(heap, state) = snaps[j].taken

\* C5: after delete_X() and with no set_X since, a snapshot has X at -1 and
\* the load report built from it does not carry X (for each of the four X).
C5_DeleteThenSnapshot ==
    JustSnapshotted =>
        \A f \in ScalarFields :
            lastScalar[f].op = "Delete" =>
                /\ Snapshot[f] = Unset
                /\ ~Present(toLoadReportProto(Snapshot), f)

\* A snapshot right after the delete of a scalar that was set.
C5_Witness ==
    /\ JustSnapshotted
    /\ \E f \in ScalarFields : lastScalar[f].op = "Delete" /\ lastScalar[f].old # {Unset}

\* The load report's field for scalar f, had f been unset in sm.
ReportedUnset(sm, f) == toLoadReportProto([sm EXCEPT ![f] = Unset])[ProtoField(f)]

\* C6 as stated: after set_X(v), v # -1, a snapshot's load report carries X
\* with value v, and so differs from the report of an unset X - also for v = 0.
C6_SetThenSnapshot_Original ==
    JustSnapshotted =>
        \A f \in ScalarFields :
            (lastScalar[f].op = "Set" /\ lastScalar[f].val # {Unset}) =>
                /\ {toLoadReportProto(Snapshot)[ProtoField(f)]} = lastScalar[f].val
                /\ toLoadReportProto(Snapshot)[ProtoField(f)] # ReportedUnset(Snapshot, f)

\* C6 amended: after set_X(v), v # -1, the snapshot has X = v and its load
\* report's field holds v; the report differs from that of an unset X exactly
\* when v # 0, since an unset X leaves the field at the zero value.
C6_SetThenSnapshot ==
    JustSnapshotted =>
        \A f \in ScalarFields :
            (lastScalar[f].op = "Set" /\ lastScalar[f].val # {Unset}) =>
                /\ {Snapshot[f]} = lastScalar[f].val
                /\ {toLoadReportProto(Snapshot)[ProtoField(f)]} = lastScalar[f].val
                /\ (toLoadReportProto(Snapshot)[ProtoField(f)] # ReportedUnset(Snapshot, f))
                       <=> (Snapshot[f] # 0)

\* A snapshot after QPS was set to 0 and another scalar to 1.
C6_Witness ==
    /\ JustSnapshotted
    /\ lastScalar["QPS"].op = "Set" /\ lastScalar["QPS"].val = {0}
    /\ \E f \in ScalarFields : lastScalar[f].op = "Set" /\ lastScalar[f].val = {1}

\* C7: for each of the three maps, after set(name, v) a snapshot maps name to
\* v, after delete(name) a snapshot has no name, and the delete of a name that
\* is not there leaves the map as it was.
C7_NamedRoundTrip ==
    /\ JustSnapshotted =>
          \A m \in MapFields, n \in Names :
              /\ lastNamed[<<m, n>>].op = "Set" =>
                    Lookup(heap[Snapshot[m]], n) = lastNamed[<<m, n>>].val
              /\ lastNamed[<<m, n>>].op = "Delete" => n \notin DOMAIN heap[Snapshot[m]]
    /\ (lastCall.op \in NamedDeleteOps /\ lastCall.name \notin DOMAIN prev[MapOf(lastCall.op)]) =>
          heap[state[MapOf(lastCall.op)]] = prev[MapOf(lastCall.op)]

\* A snapshot after an entry of RequestCost was set and then deleted.
C7_Witness ==
    /\ JustSnapshotted
    /\ \E n \in Names :
          lastNamed[<<"RequestCost", n>>].op = "Delete" /\ lastNamed[<<"RequestCost", n>>].old # {}

\* The entries a load report carries in map m.
ReportEntries(r, m) == IF r[m] \in DOMAIN heap THEN heap[r[m]] ELSE EmptyMap

\* C8 as stated: the load report of a ServerMetrics value carries no
\* request_cost entries, whatever the value's request_cost map holds.
C8_ReportExcludesRequestCost_Original ==
    \A i \in DOMAIN snaps :
        ReportEntries(toLoadReportProto(snaps[i].sm), "RequestCost") = EmptyMap

\* C8 amended: the load report of a ServerMetrics value carries the value's
\* request_cost map, entry for entry, as it carries the other two maps.
C8_ReportCarriesRequestCost ==
    \A i \in DOMAIN snaps : \A m \in MapFields :
        /\ toLoadReportProto(snaps[i].sm)[m] \in DOMAIN heap
        /\ ReportEntries(toLoadReportProto(snaps[i].sm), m) = heap[snaps[i].sm[m]]

\* A load report was built from a value whose request_cost map has an entry.
C8_Witness ==
    \E k \in DOMAIN reports :
        /\ DOMAIN heap[snaps[reports[k].from].sm.RequestCost] # {}
        /\ reports[k].built.RequestCost # EmptyMap

\* The map instances of the load reports built.
ReportMaps == {<<k, m, reports[k].proto[m]>> : k \in DOMAIN reports, m \in MapFields}

\* C9 as stated: no map instance belongs to two of the recorder, the values
\* returned or merged, and the load reports; a load report keeps the entries it
\* was built with.
C9_NoSharedMap_Original ==
    /\ \A x \in OwnedMaps, y \in OwnedMaps : x[3] = y[3] => x = y
    /\ \A x \in ReportMaps, y \in OwnedMaps : x[3] # y[3]
    /\ \A k \in DOMAIN reports : \A m \in MapFields :
          ReportEntries(reports[k].proto, m) = reports[k].built[m]

\* C9 amended: no map instance belongs to two of the recorder and the values
\* returned or merged; a load report holds the very map instances of the
\* value it was built from, so it shows that value's entries as they are now.
C9_ReportSharesMaps ==
    /\ \A x \in OwnedMaps, y \in OwnedMaps : x[3] = y[3] => x = y
    /\ \A k \in DOMAIN reports : \A m \in MapFields :
          /\ reports[k].proto[m] = snaps[reports[k].from].sm[m]
          /\ ReportEntries(reports[k].proto, m) = heap[snaps[reports[k].from].sm[m]]

\* A key was put into or taken out of a value after its load report was built,
\* and the report shows it.
C9_Witness ==
    \E k \in DOMAIN reports : \E m \in MapFields :
        /\ lastCall.op \in {"CallerSetKey", "CallerDeleteKey", "merge"}
        /\ ReportEntries(reports[k].proto, m) # reports[k].built[m]

NothingSet ==
    /\ \A f \in ScalarFields : lastScalar[f].op = "none"
    /\ \A k \in MapFields \X Names : lastNamed[k].op = "none"

\* C10: the snapshot of a recorder on which no setter was called has the four
\* scalars at -1 and three empty maps; the maps of the recorder and of every
\* snapshot are never nil.
C10_FreshRecorder ==
    /\ \A x \in OwnedMaps : x[3] # Nil /\ x[3] \in DOMAIN heap
    /\ (JustSnapshotted /\ NothingSet) =>
          /\ \A f \in ScalarFields : Snapshot[f] = Unset
          /\ \A m \in MapFields : heap[Snapshot[m]] = EmptyMap

\* Two snapshots of a recorder on which nothing was set.
C10_Witness == JustSnapshotted /\ NothingSet /\ Len(snaps) = 2

\* The union of maps a and b in which b's value wins on a key of both.
RightBiasedUnion(a, b) ==
    [k \in (DOMAIN a) \cup (DOMAIN b) |-> IF k \in DOMAIN b THEN b[k] ELSE a[k]]

\* C4: after self.merge(other) each scalar of self is other's value if that is
\* not -1 and self's previous value otherwise, and each map of self is the
\* right-biased union of self's previous map and other's map.
C4_MergeOverwrites ==
    lastCall.op = "merge" =>
        LET self  == lastMerge.before[lastMerge.self]
            other == lastMerge.before[lastMerge.other]
            now   == Abs(heap, snaps[lastMerge.self].sm)
        IN /\ \A f \in ScalarFields :
                 now[f] = IF other[f] # Unset THEN other[f] ELSE self[f]
           /\ \A m \in MapFields : now[m] = RightBiasedUnion(self[m], other[m])

\* A merge of two values that had different values under one key.
C4_Witness ==
    /\ lastCall.op = "merge"
    /\ lastMerge.self # lastMerge.other
    /\ \E m \in MapFields : \E n \in Names :
          /\ n \in DOMAIN lastMerge.before[lastMerge.self][m]
          /\ n \in DOMAIN lastMerge.before[lastMerge.other][m]
          /\ lastMerge.before[lastMerge.self][m][n] # lastMerge.before[lastMerge.other][m][n]

\* Thread t has read all seven fields in ServerMetrics() and is about to return.
Returning(t) == pc[t] = "unlock" /\ call[t].op = "ServerMetrics"

\* C1: the recorder's content is always what the whole mutator calls, applied
\* one at a time in the order they took effect, make of it; and the value a
\* ServerMetrics() call returns is the content at some point of that order
\* between the call's Lock and its return - never a mix of two contents.
C1_Linearizable ==
    /\ Abs(heap, state) = lin
    /\ \A t \in Threads : Returning(t) => Abs(heap, ret[t]) \in window[t]

\* A ServerMetrics() call returns what a setter running at the same time left,
\* while another call waits for the mutex.
C1_Witness ==
    \E t \in Threads :
        /\ Returning(t)
        /\ ~quiet[t]
        /\ Abs(heap, ret[t]) # Abs(newServerMetricsRecorder.heap, newServerMetricsRecorder.state)
        /\ \E u \in Threads \ {t} : pc[u] = "lock" /\ call[u].op \in MutatorOps

\* The NamedMetrics map the calls of the stress run add up to.
StressEntries ==
    [n \in {d.name : d \in stress.calls} |->
        (CHOOSE d \in stress.calls : d.name = n).val]

\* C2: on a fresh recorder, once threads have each called SetNamedMetric with a
\* name of their own and all the calls have returned, a snapshot taken then has
\* in NamedMetrics exactly the entries set.
C2_NoLostUpdates ==
    \A t \in Threads :
        (Returning(t) /\ quiet[t] /\ stress.on) =>
            heap[ret[t].NamedMetrics] = StressEntries

\* A snapshot taken after two threads' SetNamedMetric calls have returned.
C2_Witness ==
    \E t \in Threads :
        /\ Returning(t) /\ quiet[t] /\ stress.on
        /\ Cardinality({d.t : d \in stress.calls}) = NThreads

\* Some thread is inside a call and some thread can take a step.
Pending == \E t \in Threads : pc[t] # "idle"
CanStep(t) == pc[t] \notin {"idle", "lock"} \/ (pc[t] = "lock" /\ mu = 0)

\* C11: with a fair scheduler and mutex every call invoked returns and the
\* mutex is free again; no state with a call in progress is a deadlock; a
\* thread in Lock never holds the mutex already (a scalar deleter hands over
\* to the setter, which takes the mutex once).
C11_EveryCallReturns ==
    /\ [](Pending => \E t \in Threads : CanStep(t) /\ ENABLED (Lock(t) \/ Run(t)))
    /\ [](\A t \in Threads : pc[t] = "lock" => mu # t)
    /\ \A t \in Threads : (pc[t] # "idle") ~> (pc[t] = "idle")
    /\ (mu # 0) ~> (mu = 0)

\* A scalar deleter waits in Lock while another thread holds the mutex.
C11_Witness ==
    \E t \in Threads : \E u \in Threads \ {t} :
        /\ pc[t] = "lock" /\ call[t].op \in ScalarDeleteOps
        /\ mu = u /\ pc[u] \notin {"idle", "lock"}

\* Thread t is between the Lock and the Unlock of a call.
Holding(t) == pc[t] \in {"read", "write", "load", "store", "unlock"}

\* C12: at most one thread is between its Lock and its Unlock, and it is the
\* thread the mutex belongs to; a thread that is idle (has returned) or waits
\* in Lock does not hold the mutex; and every step that reads or writes the
\* recorder's state is a step of the thread that holds the mutex.
C12_LockDiscipline ==
    /\ [](Cardinality({t \in Threads : Holding(t)}) <= 1)
    /\ [](\A t \in Threads : Holding(t) <=> mu = t)
    /\ [][\A t \in Threads :
            (WriteScalar(t) \/ LoadMap(t) \/ StoreMap(t) \/ ReadNext(t)) => mu = t]_vars

\* A thread is half way through the reads of ServerMetrics() while a setter
\* or deleter waits for the mutex.
C12_Witness ==
    \E t \in Threads : \E u \in Threads \ {t} :
        /\ pc[t] = "read" /\ Cardinality(DOMAIN ret[t]) = 3
        /\ mu = t
        /\ pc[u] = "lock" /\ call[u].op \in MutatorOps

\* C13: setters are atomic one by one, not as a group.  When one thread has
\* set scalars one after the other, a value returned by ServerMetrics() that
\* has a later one set has every earlier one set; it may have an earlier one
\* set and a later one not.
C13_SettersInOrder ==
    \A s \in Threads :
        (Returning(s) /\ program.on) =>
            \A i \in DOMAIN program.fields : \A j \in DOMAIN program.fields :
                (i < j /\ ret[s][program.fields[j]] # Unset) =>
                    ret[s][program.fields[i]] # Unset

\* ServerMetrics() returns a value with the first scalar set and the second
\* not, while the thread that set the first waits in Lock to set the second.
C13_Witness ==
    \E s \in Threads :
        /\ Returning(s) /\ program.on /\ Len(program.fields) = 2
        /\ program.t # s
        /\ ret[s][program.fields[1]] # Unset
        /\ ret[s][program.fields[2]] = Unset
        /\ pc[program.t] = "lock"
        /\ call[program.t].op \in ScalarSetOps
        /\ ScalarOf(call[program.t].op) = program.fields[2]

\* C14: a scalar setter or deleter changes its scalar only: the other three
\* scalars and the three maps of the recorder are as before the call.  A named
\* setter or deleter changes the entry of its name in its map only: the other
\* entries of that map, the other two maps and the four scalars are as before.
C14_MutatorFrame ==
    LET now == Abs(heap, state)
    IN /\ lastCall.op \in ScalarSetOps \cup ScalarDeleteOps =>
             \A f \in (ScalarFields \cup MapFields) \ {ScalarOf(lastCall.op)} :
                 now[f] = prev[f]
       /\ lastCall.op \in NamedSetOps \cup NamedDeleteOps =>
             /\ \A f \in (ScalarFields \cup MapFields) \ {MapOf(lastCall.op)} :
                   now[f] = prev[f]
             /\ \A n \in Names \ {lastCall.name} :
                   Lookup(now[MapOf(lastCall.op)], n) = Lookup(prev[MapOf(lastCall.op)], n)

\* A name was set in the utilization map of a recorder that had another name
\* in that map and a scalar set.
C14_Witness ==
    /\ lastCall.op = "SetNamedUtilization"
    /\ \E n \in Names \ {lastCall.name} : n \in DOMAIN prev.Utilization
    /\ \E f \in ScalarFields : prev[f] # Unset
    /\ Abs(heap, state) # prev

\* The last value ServerMetrics() returned, before and after a step.
Newest == snaps[Len(snaps)]
NewestAfter == snaps'[Len(snaps')]

\* C15: ServerMetrics() leaves the recorder as it was and returns its content;
\* only a setter or deleter call changes the recorder's content.  So a
\* snapshot taken right after another is equal to it in the four scalars and
\* the three maps, and holds map instances of its own.
C15_SnapshotReadOnly ==
    [][/\ Len(snaps') = Len(snaps) + 1 =>
            /\ state' = state
            /\ Abs(heap', state') = Abs(heap, state)
            /\ NewestAfter.taken = Abs(heap, state)
            /\ (lastCall.op = "ServerMetrics" =>
                   /\ NewestAfter.taken = Newest.taken
                   /\ \A m1 \in MapFields, m2 \in MapFields :
                         NewestAfter.sm[m1] # Newest.sm[m2])
       /\ Abs(heap', state') # Abs(heap, state) => lastCall'.op \in MutatorOps
      ]_vars

\* Two snapshots in a row of a recorder that has a named metric.
C15_Witness ==
    /\ Len(snaps) = 2 /\ JustSnapshotted
    /\ snaps[1].taken = snaps[2].taken
    /\ snaps[2].taken.NamedMetrics # EmptyMap
    /\ \A m \in MapFields : snaps[1].sm[m] # snaps[2].sm[m]

\* The operands of the last merge, before it, and its receiver now.
SelfBefore == lastMerge.before[lastMerge.self]
OtherBefore == lastMerge.before[lastMerge.other]
SelfNow == Abs(heap, snaps[lastMerge.self].sm)

\* C16: self.merge(other), for two distinct values, leaves other's scalars and
\* maps as they were, takes no key out of a map of self, and leaves no scalar
\* of self unset that was set.
C16_MergeKeeps ==
    (lastCall.op = "merge" /\ lastMerge.self # lastMerge.other) =>
        /\ Abs(heap, snaps[lastMerge.other].sm) = OtherBefore
        /\ \A m \in MapFields : DOMAIN SelfBefore[m] \subseteq DOMAIN SelfNow[m]
        /\ \A f \in ScalarFields : SelfBefore[f] # Unset => SelfNow[f] # Unset

\* A merge into a value with a scalar set of a value that has that scalar
\* unset and something else filled.
C16_Witness ==
    /\ lastCall.op = "merge" /\ lastMerge.self # lastMerge.other
    /\ \E f \in ScalarFields : SelfBefore[f] # Unset /\ OtherBefore[f] = Unset
    /\ SelfNow # SelfBefore

\* The content of a value with nothing set.
AllUnset ==
    [CPUUtilization |-> Unset, MemUtilization |-> Unset, QPS |-> Unset, EPS |-> Unset,
     Utilization |-> EmptyMap, RequestCost |-> EmptyMap, NamedMetrics |-> EmptyMap]

\* C17: a merge repeated with the same operands leaves self as the first one
\* did; a merge of a value into itself, and a merge of a value with nothing set,
\* leave self as it was.
C17_MergeIdempotent ==
    [][/\ (lastCall.op = "merge" /\ lastCall'.op = "merge"
             /\ lastMerge'.self = lastMerge.self /\ lastMerge'.other = lastMerge.other) =>
            Abs(heap', snaps'[lastMerge.self].sm) = Abs(heap, snaps[lastMerge.self].sm)
       /\ (lastCall'.op = "merge"
             /\ (lastMerge'.self = lastMerge'.other
                   \/ lastMerge'.before[lastMerge'.other] = AllUnset)) =>
            Abs(heap', snaps'[lastMerge'.self].sm) = lastMerge'.before[lastMerge'.self]
      ]_vars

\* The same merge was made again: the first one had changed self, nothing was
\* merged into other, and this one changed nothing.
C17_Witness ==
    /\ lastCall.op = "merge" /\ lastMerge.self # lastMerge.other
    /\ ~snaps[lastMerge.other].touched
    /\ SelfNow = SelfBefore
    /\ OtherBefore # AllUnset
    /\ SelfNow # snaps[lastMerge.self].taken
    /\ \E m \in MapFields : \E n \in Names :
          n \in DOMAIN OtherBefore[m] /\ n \in DOMAIN snaps[lastMerge.self].taken[m]

====
